---- MODULE Spec2Model ----
(***************************************************************************)
(* nsrip: bulk DNS reconnaissance.  The model covers the two-stage         *)
(* pipeline of main(): resolveNameservers (nameservers.go), which maps     *)
(* nameserver hostnames to IPs with a pool of workers, and the query       *)
(* pipeline of main.go (dispatch loop, query workers, result sink and the  *)
(* progress counters).  The repository holds three revisions of main.go;   *)
(* `variant` selects the earliest one ("early": buffered channels, no      *)
(* progress counters, sink goroutine not awaited), the middle one ("mid":  *)
(* unbuffered channels, progress/total counters, wg2, reporter only        *)
(* without --quiet) or the latest one ("latest": as the middle one, with   *)
(* --output and the sink formatting each line before it prints it).        *)
(*                                                                         *)
(* Strings that the code concatenates or splits (domains, IPs, job keys)   *)
(* are sequences of one-character strings; the empty string is << >>.      *)
(***************************************************************************)
EXTENDS Integers, Sequences, FiniteSets, TLC

\* ------------------------------------------------------------- bounds
MaxNameservers == 2
MaxDomains == 1
MaxWorkers == 2
MaxListed == 3          \* nameserver list length when only the resolver runs
MaxRecords == 2         \* records in the answer section of one response

\* ------------------------------------------------------------- universes
Hostnames == {"ns1", "ns2"}
EmptyStr == << >>
IPs == {<<"1">>, <<"2">>}
DomainNames == {<<"a">>, <<"a", "|", "b">>}
Variants == {"early", "mid", "latest"}
RecordTypes == {"A", "CNAME", "AAAA", "TXT"}    \* TXT: any other type
OutputFiles == {"", "out"}                      \* -o not given, -o out

SeqsUpTo(S, n) == UNION {[1..k -> S] : k \in 0..n}

\* (domain, nsIP) pairs a query worker can hand to queryDNS
Pairs == DomainNames \X (IPs \cup {EmptyStr})

\* What c.Exchange can come back with: a transport error, a timeout, or a
\* response carrying a response code.
ExchangeOutcomes ==
    {[err |-> "timeout", rcode |-> "none"],
     [err |-> "transport", rcode |-> "none"],
     [err |-> "nil", rcode |-> "NOERROR"],
     [err |-> "nil", rcode |-> "SERVFAIL"]}

\* What net.LookupIP can come back with: an error, zero addresses, or a
\* non-empty list of addresses.
LookupOutcomes ==
    {[err |-> TRUE, ips |-> << >>], [err |-> FALSE, ips |-> << >>]}
    \cup {[err |-> FALSE, ips |-> <<ip>>] : ip \in IPs}

VARIABLES
    variant,            \* which revision of main.go runs
    nameservers,        \* []string read from the provider lists
    domainsList,        \* []string of target domains
    numWorkers,         \* --workers
    quietMode,          \* --quiet
    outputFile,         \* --output ("" when not given; latest revision only)
    answerSections,     \* the answer sections the queried servers reply with
    verboseMode,        \* --verbose (not in the early revision)
    sampleSize,         \* numDomains * numNameservers
    mainPc,             \* position of main()
    \* resolveNameservers
    jobs,               \* chan string, buffered len(nameservers)
    jobsClosed,
    results,            \* chan map[string]string, buffered len(nameservers)
    resultsClosed,
    rpc,                \* resolver worker -> "idle" | "recv" | "lookup" | "done"
    rjob,               \* resolver worker -> hostname being looked up
    resultsMap,         \* map[ip]hostname under construction
    mappedNameservers,  \* the map returned to main
    \* query pipeline
    progress,           \* var progress int32
    total,              \* var total int32
    pendingQueries,     \* buffer of the job channel (always empty when unbuffered)
    pendingClosed,
    queryAnswers,       \* buffer of the answer channel (always empty when unbuffered)
    answersClosed,
    qpc,                \* query worker -> "idle" | "recv" | "exchange" | "send" | "done"
    qjob,               \* query worker -> <<domain, nsIP>> in hand
    keysLeft,           \* keys of mappedNameservers the range loop has not visited
    curKey,             \* nsIP of the current outer iteration
    domIdx,             \* next index of the inner loop over domainsList
    sinkPc,             \* "off" | "recv" | "render" | "done"
    sinkCur,            \* the answer being rendered
    \* history (not program state)
    drained,            \* results drained by resolveNameservers, in order:
                        \* <<hostname, ip sent, whether the lookup failed>>
    sent,               \* job keys ever put on the job channel
    calls,              \* pair -> number of calls of queryDNS
    exOk,               \* pair -> exchanges that returned NOERROR without error
    exErr,              \* pair -> exchanges that failed (error or bad rcode)
    pushed,             \* pair -> answers pushed on the answer channel
    rendered,           \* pair -> answers fully rendered by the sink
    \* what the program has written
    consoleWritten,     \* whether anything went to standard output yet
    failLines,          \* number of "[-] <error>" lines printed
    repVal1,            \* reporter: << >> waiting on stdin, else <<val1>> loaded
    report,             \* the last progress line printed, if any
    \* the sink loop record by record
    renderIn,           \* answer sections of the answers received, in order
    renderAns,          \* index of the answer being rendered (0: none yet)
    renderIdx,          \* index of the next record of that answer
    renderOut,          \* what the sink has printed: text pieces and "\n"
    fHandle,            \* "nil" | "open": the output file of the sink
    fileOut             \* what the sink has written to the output file

inputVars == <<variant, domainsList, numWorkers, quietMode, verboseMode, outputFile,
               answerSections, sampleSize>>
renderVars == <<renderIn, renderAns, renderIdx, renderOut>>
fileVars == <<fHandle, fileOut>>
outVars == <<consoleWritten, failLines, repVal1, report, renderVars, fileVars>>
resolveVars == <<nameservers, jobs, jobsClosed, results, resultsClosed, rpc, rjob,
                 resultsMap, mappedNameservers, drained>>
counterVars == <<progress, total>>
chanVars == <<pendingQueries, pendingClosed, queryAnswers, answersClosed>>
dispatchVars == <<keysLeft, curKey, domIdx, sent>>
sinkVars == <<sinkPc, sinkCur, rendered>>
histVars == <<calls, exOk, exErr, pushed>>
vars == <<inputVars, mainPc, resolveVars, counterVars, chanVars, qpc, qjob,
          dispatchVars, sinkVars, histVars, outVars>>

Workers == 1..numWorkers
EmptyMap == [k \in {} |-> ""]
ZeroCount == [p \in Pairs |-> 0]
Sum(f) ==
    LET RECURSIVE S(_)
        S(D) == IF D = {} THEN 0
                ELSE LET x == CHOOSE x \in D : TRUE IN f[x] + S(D \ {x})
    IN S(DOMAIN f)
Range(f) == {f[x] : x \in DOMAIN f}

\* ------------------------------------------------------------- variants
HasProgress == variant # "early"
HasWg2 == variant # "early"
ChanCap == IF variant = "early" THEN numWorkers ELSE 0

\* (variation: the wait returns as soon as one worker has finished)
WaitDoneAny(pcs) == \E w \in DOMAIN pcs : pcs[w] = "done"

\* wg.Wait(): every worker of the pool has run its deferred wg.Done()
WaitDone(pcs) == \A w \in DOMAIN pcs : pcs[w] = "done"

HasVerbose == variant # "early"

\* (variation: the product left out, the number of domains alone)
SampleSizeDomainsOnly(numDomains, numNameservers) == numDomains

\* sampleSize := numDomains * numNameservers
SampleSize(numDomains, numNameservers) == numDomains * numNameservers
HasReporter == variant # "early"
HasOutputFile == variant = "latest"

\* where main() stands after a log.Fatalf: the worker count rejected, a
\* list that could not be loaded, the output file that could not be created
FatalExits == {"fatal_workers", "fatal_lists", "fatal_output"}

\* The answer section every server replies with in the runs of the
\* pipeline alone: one A record.
UsualSections == {<<"A">>}

\* The answer section every server replies with in the runs of the whole
\* program: a CNAME followed by the A record of its target.
AliasSections == {<<"CNAME", "A">>}

\* "no progress line printed yet"
NoReport == [val1 |-> 0, val2 |-> 0, pct |-> [kind |-> "none", value |-> 0]]

RECURSIVE Gcd(_, _)
Gcd(a, b) == IF b = 0 THEN a ELSE Gcd(b, a % b)

RECURSIVE IsPowerOfTwo(_)
IsPowerOfTwo(n) == n = 1 \/ (n > 1 /\ n % 2 = 0 /\ IsPowerOfTwo(n \div 2))

\* floor(log2(n)) for n >= 1
RECURSIVE Log2Floor(_)
Log2Floor(n) == IF n < 2 THEN 0 ELSE 1 + Log2Floor(n \div 2)

\* the least m with a * 2^m >= b, for 0 < a < b
RECURSIVE ShiftsToReach(_, _)
ShiftsToReach(a, b) == IF a >= b THEN 0 ELSE 1 + ShiftsToReach(2 * a, b)

\* (a * 2^k) mod b
RECURSIVE ShiftedRemainder(_, _, _)
ShiftedRemainder(a, b, k) ==
    IF k = 0 THEN a % b ELSE ShiftedRemainder((2 * a) % b, b, k - 1)

\* Whether the float64 quotient of a by b (a/b in lowest terms, not a
\* binary fraction) lies below a/b: the division rounds a/b to 53
\* significant bits, to the nearest, so it rounds down when the bits cut off
\* are less than half a unit of the last bit kept.
QuotientRoundsDown(a, b) ==
    LET j == IF a >= b THEN Log2Floor(a \div b) ELSE 0 - ShiftsToReach(a, b)
    IN 2 * ShiftedRemainder(a, b, 52 - j) < b

\* "%.2f" of float64(val1)*100/float64(val2), in hundredths, for val2 > 0:
\* the decimal expansion of the float64 quotient rounded to two places, an
\* exact tie going to the even digit.  The quotient is exact when
\* 100*val1/val2 is a binary fraction; otherwise it lies just below or just
\* above, which decides a case that would be a tie on the exact ratio.
\* (Exact as long as 10000*val1 fits the integers used here, where the
\* rounding of the division cannot carry a ratio across a tie.)
Hundredths(val1, val2) ==
    LET x == 10000 * val1
        f == x \div val2
        rem == x % val2
        g == Gcd(100 * val1, val2)
        a == (100 * val1) \div g
        b == val2 \div g
    IN IF 2 * rem < val2 THEN f
       ELSE IF 2 * rem > val2 THEN f + 1
       ELSE IF IsPowerOfTwo(b) THEN (IF f % 2 = 0 THEN f ELSE f + 1)
       ELSE IF QuotientRoundsDown(a, b) THEN f ELSE f + 1

\* float64(val1)*100/float64(val2) under "%.2f": hundredths of a percent;
\* a zero divisor gives the IEEE values NaN (0/0) or +Inf
Percent(val1, val2) ==
    IF val2 = 0
    THEN [kind |-> (IF val1 = 0 THEN "NaN" ELSE "+Inf"), value |-> 0]
    ELSE [kind |-> "num", value |-> Hundredths(val1, val2)]

\* "[~] Progress: %d/%d (%.2f%%)"
ProgressLine(val1, val2) ==
    [val1 |-> val1, val2 |-> val2, pct |-> Percent(val1, val2)]

\* Everything main() and its goroutines have not touched yet.
Untouched ==
    /\ sampleSize = SampleSize(Len(domainsList), Len(nameservers))
    /\ failLines = 0 /\ repVal1 = << >> /\ report = NoReport
    /\ renderIn = << >> /\ renderAns = 0 /\ renderIdx = 1 /\ renderOut = << >>
    /\ fHandle = "nil" /\ fileOut = << >>
    /\ jobs = << >> /\ jobsClosed = FALSE
    /\ results = << >> /\ resultsClosed = FALSE
    /\ rpc = [w \in Workers |-> "idle"]
    /\ rjob = [w \in Workers |-> ""]
    /\ resultsMap = EmptyMap
    /\ mappedNameservers = EmptyMap
    /\ progress = 0 /\ total = 0
    /\ pendingQueries = << >> /\ pendingClosed = FALSE
    /\ queryAnswers = << >> /\ answersClosed = FALSE
    /\ qpc = [w \in Workers |-> "idle"]
    /\ qjob = [w \in Workers |-> << >>]
    /\ keysLeft = {} /\ curKey = EmptyStr /\ domIdx = 1
    /\ sinkPc = "off" /\ sinkCur = << >>
    /\ drained = << >> /\ sent = {}
    /\ calls = ZeroCount /\ exOk = ZeroCount /\ exErr = ZeroCount
    /\ pushed = ZeroCount /\ rendered = ZeroCount

\* main() about to call resolveNameservers: flags parsed with --quiet and
\* --verbose left at their defaults and --output given or not, banner
\* printed, worker count checked, nameserver and domain lists loaded.
Init ==
    /\ variant \in Variants
    /\ nameservers \in SeqsUpTo(Hostnames, MaxNameservers)
    /\ domainsList \in SeqsUpTo(DomainNames, MaxDomains)
    /\ numWorkers \in 1..MaxWorkers
    /\ quietMode = FALSE /\ verboseMode = FALSE
    /\ outputFile \in (IF HasOutputFile THEN OutputFiles ELSE {""})
    /\ answerSections = UsualSections
    /\ consoleWritten = TRUE
    /\ mainPc = "resolve"
    /\ Untouched

\* ------------------------------------------------------------- nameservers.go
\* resolveNameserver: "" with an error when the lookup fails or returns no
\* address, else the first address.
resolveNameserver(lookup) ==
    IF lookup.err THEN [ip |-> EmptyStr, err |-> TRUE]
    ELSE IF Len(lookup.ips) = 0 THEN [ip |-> EmptyStr, err |-> TRUE]
    ELSE [ip |-> lookup.ips[1], err |-> FALSE]

\* (variant: a failed lookup reported under an address instead of "")
workerResultStaleIP(ns, r) ==
    IF r.err THEN <<ns, <<"1">> >> ELSE <<ns, r.ip>>

\* The one-entry map {ns: ip} a resolver worker sends, as the pair <<ns, ip>>.
workerResult(ns, r) ==
    IF r.err THEN <<ns, EmptyStr>> ELSE <<ns, r.ip>>

\* (variant: an existing key is kept)
MapPutFirstWins(m, ip, ns) ==
    [k \in DOMAIN m \cup {ip} |-> IF k \in DOMAIN m THEN m[k] ELSE ns]

\* resultsMap[ip] = ns
\* (variation: a second result for an IP already in the map removes the entry)
MapPutDropRepeat(m, ip, ns) ==
    IF ip \in DOMAIN m THEN [k \in DOMAIN m \ {ip} |-> m[k]]
    ELSE [k \in DOMAIN m \cup {ip} |-> IF k = ip THEN ns ELSE m[k]]

MapPut(m, ip, ns) ==
    [k \in DOMAIN m \cup {ip} |-> IF k = ip THEN ns ELSE m[k]]

\* (variant: the drain loop stops as soon as the channel is empty)
DrainDoneWhenEmpty == results = << >>

\* `for result := range results` ends when the channel is closed and empty.
DrainDone == resultsClosed /\ results = << >>

\* resolveNameservers up to the start of the drain loop: start the workers,
\* enqueue every hostname (the channel holds them all), close(jobs), start
\* the goroutine that closes results after wg.Wait().
RnStart ==
    /\ mainPc = "resolve"
    /\ jobs' = nameservers
    /\ jobsClosed' = TRUE
    /\ rpc' = [w \in Workers |-> "recv"]
    /\ mainPc' = "rn_drain"
    /\ UNCHANGED <<inputVars, outVars, nameservers, results, resultsClosed, rjob, resultsMap,
                   mappedNameservers, drained, counterVars, chanVars, qpc, qjob,
                   dispatchVars, sinkVars, histVars>>

\* worker: `for ns := range jobs` takes the next hostname
RWorkerRecv(w) ==
    /\ rpc[w] = "recv"
    /\ jobs # << >>
    /\ rjob' = [rjob EXCEPT ![w] = Head(jobs)]
    /\ jobs' = Tail(jobs)
    /\ rpc' = [rpc EXCEPT ![w] = "lookup"]
    /\ UNCHANGED <<inputVars, outVars, nameservers, mainPc, jobsClosed, results, resultsClosed,
                   resultsMap, mappedNameservers, drained, counterVars, chanVars,
                   qpc, qjob, dispatchVars, sinkVars, histVars>>

\* worker: the range loop ends on the closed, empty channel; wg.Done()
RWorkerExit(w) ==
    /\ rpc[w] = "recv"
    /\ jobs = << >> /\ jobsClosed
    /\ rpc' = [rpc EXCEPT ![w] = "done"]
    /\ UNCHANGED <<inputVars, outVars, nameservers, mainPc, jobs, jobsClosed, results, resultsClosed,
                   rjob, resultsMap, mappedNameservers, drained, counterVars,
                   chanVars, qpc, qjob, dispatchVars, sinkVars, histVars>>

\* worker: the lookup returns and its result is sent on results (the third
\* component is history: whether the lookup itself failed)
RWorkerLookup(w) ==
    /\ rpc[w] = "lookup"
    /\ Len(results) < Len(nameservers)
    /\ ~resultsClosed
    /\ \E o \in LookupOutcomes :
         results' = Append(results,
                           workerResult(rjob[w], resolveNameserver(o))
                               \o <<o.err \/ o.ips = << >> >>)
    /\ rpc' = [rpc EXCEPT ![w] = "recv"]
    /\ rjob' = [rjob EXCEPT ![w] = ""]
    /\ UNCHANGED <<inputVars, outVars, nameservers, mainPc, jobs, jobsClosed, resultsClosed,
                   resultsMap, mappedNameservers, drained, counterVars, chanVars,
                   qpc, qjob, dispatchVars, sinkVars, histVars>>

\* go func() { wg.Wait(); close(results) }()
FanIn ==
    /\ mainPc = "rn_drain"
    /\ ~resultsClosed
    /\ WaitDone(rpc)
    /\ resultsClosed' = TRUE
    /\ UNCHANGED <<inputVars, outVars, nameservers, mainPc, jobs, jobsClosed, results, rpc, rjob,
                   resultsMap, mappedNameservers, drained, counterVars, chanVars,
                   qpc, qjob, dispatchVars, sinkVars, histVars>>

\* one iteration of `for result := range results`
RnDrain ==
    /\ mainPc = "rn_drain"
    /\ results # << >>
    /\ resultsMap' = MapPut(resultsMap, Head(results)[2], Head(results)[1])
    /\ drained' = Append(drained, Head(results))
    /\ results' = Tail(results)
    /\ UNCHANGED <<inputVars, outVars, nameservers, mainPc, jobs, jobsClosed, resultsClosed, rpc, rjob,
                   mappedNameservers, counterVars, chanVars, qpc, qjob,
                   dispatchVars, sinkVars, histVars>>

\* return resultsMap
RnReturn ==
    /\ mainPc = "rn_drain"
    /\ DrainDone
    /\ mappedNameservers' = resultsMap
    /\ mainPc' = "resolved"
    /\ UNCHANGED <<inputVars, outVars, nameservers, jobs, jobsClosed, results, resultsClosed, rpc, rjob,
                   resultsMap, drained, counterVars, chanVars, qpc, qjob,
                   dispatchVars, sinkVars, histVars>>

\* ------------------------------------------------------------- main.go helpers
\* strings.Split(s, sep) for a one-character separator
RECURSIVE Split(_, _)
Split(s, sep) ==
    IF \A i \in 1..Len(s) : s[i] # sep THEN <<s>>
    ELSE LET i == CHOOSE i \in 1..Len(s) :
                    s[i] = sep /\ \A j \in 1..(i - 1) : s[j] # sep
         IN <<SubSeq(s, 1, i - 1)>> \o Split(SubSeq(s, i + 1, Len(s)), sep)

\* fmt.Sprintf("%s|%s", domain, nsIP)
JobKey(domain, nsIP) == domain \o <<"|">> \o nsIP

\* (variant: the response code is not looked at)
queryDNSAnyRcode(x) ==
    IF x.err # "nil" THEN [ok |-> FALSE, err |-> x.err]
    ELSE [ok |-> TRUE, err |-> "nil"]

\* queryDNS: an error of the exchange is returned as it is; a response whose
\* code is not RcodeSuccess becomes the error "No answer from nameserver".
queryDNS(x) ==
    IF x.err # "nil" THEN [ok |-> FALSE, err |-> x.err]
    ELSE IF x.rcode # "NOERROR" THEN [ok |-> FALSE, err |-> "noanswer"]
    ELSE [ok |-> TRUE, err |-> "nil"]

\* (variant: no key is skipped)
SkipKeyNever(nsIP) == FALSE

\* `if nsIP == "" { continue }` of the dispatch loop
SkipKey(nsIP) == nsIP = EmptyStr

\* (variant: the increment placed after the error check)
ProgressAfterQueryOnSuccess(p, res) == IF res.ok THEN p + 1 ELSE p

\* (variation: the increment placed in the error branch only)
ProgressAfterQueryOnError(p, res) == IF res.ok THEN p ELSE p + 1

\* atomic.AddInt32(&progress, 1) comes right after queryDNS returns and
\* before the error check, so the result plays no part in it.
ProgressAfterQuery(p, res) == p + 1

\* (variant: `return` in place of `continue`)
AfterErrorReturn == "done"

\* where a query worker goes after a failed query: `continue`
AfterError == "recv"

Bump(f, p) == [f EXCEPT ![p] = @ + 1]

\* (variation: the exchange is started without waiting for it, the worker
\* is back at the receive at once)
AfterTakeNoWait == "recv"

\* `resp, err := queryDNS(domain, nsIP+":53")` is a plain call: the worker
\* stays in it until it returns
AfterTake == "exchange"

\* (variation: any key with at least two parts is taken, first part as the
\* domain and last part as the nameserver IP)
ParseJobLoose(query) ==
    LET parts == Split(query, "|") IN
    IF Len(parts) < 2 THEN << >> ELSE <<parts[1], parts[Len(parts)]>>

\* strings.Split(query, "|"); `len(parts) != 2` means "skip this job"
\* (<< >> here), else domain, nsIP := parts[0], parts[1]
ParseJob(query) ==
    LET parts == Split(query, "|") IN
    IF Len(parts) # 2 THEN << >> ELSE <<parts[1], parts[2]>>

\* (variation: a failed query is logged whatever the flag says)
LogsFailureAlways(verbose) == TRUE

\* `if verboseMode { red.Printf("[-] %s\n", err) }`; the early revision has
\* no --verbose flag and never logs a failure
LogsFailure(verbose) == HasVerbose /\ verbose

\* the instant a worker has a job key in hand: split it, drop it when it
\* does not have two parts, else call queryDNS(domain, nsIP+":53")
TakeJob(w, query) ==
    LET job == ParseJob(query) IN
    IF job = << >>
    THEN UNCHANGED <<qpc, qjob, calls>>
    ELSE /\ qpc' = [qpc EXCEPT ![w] = AfterTake]
         /\ qjob' = [qjob EXCEPT ![w] = job]
         /\ calls' = Bump(calls, job)

\* ------------------------------------------------------------- sink output
\* the type switch of the sink: which branch formats the record
TagOf(type) == IF type \in {"A", "CNAME", "AAAA"} THEN type ELSE "Other"

\* A piece of text about record i of answer k: "line" is
\* "[name (ip)] domain => value" (tags A, CNAME, AAAA) or "[name (ip)] domain"
\* (tag Other); "extra" is what fmt appends for an operand no verb consumes,
\* "%!(EXTRA type=value)"; "missing+extra" is that text once fmt has read
\* its leading "%!" as a verb with no operand, "%!!(MISSING)(EXTRA ...)".
Piece(k, i, tag, what) == [ans |-> k, rec |-> i, tag |-> tag, what |-> what]

\* the "\n" that ends each format
NL == [ans |-> 0, rec |-> 0, tag |-> "", what |-> "newline"]

\* fmt with the format of the branch and its operands.  The three classified
\* branches pass four operands to four verbs; the last branch passes four
\* operands (nsName, nsIP, domain, answer) to "[%s (%s)] %s\n", so the
\* record lands after the newline as an EXTRA operand.
Format(k, i, type) ==
    IF TagOf(type) = "Other"
    THEN <<Piece(k, i, "Other", "line"), NL, Piece(k, i, "Other", "extra")>>
    ELSE <<Piece(k, i, TagOf(type), "line"), NL>>

\* color.Printf(outputStr): the text is used as a format with no operands
PrintAsFormat(text) ==
    [j \in 1..Len(text) |->
        IF text[j].what = "extra"
        THEN [text[j] EXCEPT !.what = "missing+extra"]
        ELSE text[j]]

\* latest revision: outputStr = fmt.Sprintf(...); green.Printf(outputStr);
\* earlier revisions: green.Printf(format, operands...) directly
Printed(k, i, type) ==
    IF variant = "latest" THEN PrintAsFormat(Format(k, i, type))
    ELSE Format(k, i, type)

\* `if fHandle != nil { fmt.Fprintf(fHandle, outputStr) }`
Filed(k, i, type) ==
    IF fHandle = "open" THEN PrintAsFormat(Format(k, i, type)) ELSE << >>

\* The sink has received the answer for pair p: `resp := result.answer` is
\* one of the answer sections the servers reply with.
SinkTakes(p) ==
    /\ sinkCur' = p
    /\ sinkPc' = "render"
    /\ \E recs \in answerSections : renderIn' = Append(renderIn, recs)
    /\ renderAns' = renderAns + 1
    /\ renderIdx' = 1

\* ------------------------------------------------------------- main.go, main()
\* Once resolveNameservers has returned and main moves on, the locals of the
\* call (channels, wait group, resultsMap, the drain history) are out of
\* reach and the nameservers slice is never read again (its length went
\* into sampleSize before the call); only the returned map stays.
FrameGone ==
    /\ nameservers' = << >>
    /\ resultsMap' = EmptyMap
    /\ drained' = << >>
    /\ UNCHANGED <<jobs, jobsClosed, results, resultsClosed, rpc, rjob>>

\* "[~] Querying domains against nameservers" unless --quiet, then
\* atomic.StoreInt32(&progress, 0); atomic.StoreInt32(&total, sampleSize)
\* (the early revision has no counters)
StoreTotals ==
    /\ HasProgress
    /\ mainPc = "resolved"
    /\ consoleWritten' = (consoleWritten \/ ~quietMode)
    /\ progress' = 0
    /\ total' = sampleSize
    /\ mainPc' = "launch"
    /\ FrameGone
    /\ UNCHANGED <<inputVars, failLines, repVal1, report, renderVars, fileVars,
                   mappedNameservers, chanVars, qpc, qjob, dispatchVars, sinkVars,
                   histVars>>

\* make the two channels, create the output file when -o is given
\* (log.Fatalf when it cannot be created), start the sink goroutine and the
\* query workers, enter the dispatch loop (the early revision comes here
\* straight from resolveNameservers, after its own "[~] Querying domains
\* ..." line)
Launch ==
    /\ mainPc = (IF HasProgress THEN "launch" ELSE "resolved")
    /\ consoleWritten' = (consoleWritten \/ (~HasProgress /\ ~quietMode))
    /\ \E created \in (IF outputFile # "" THEN BOOLEAN ELSE {TRUE}) :
         LET next == IF created THEN "dispatch" ELSE "fatal_output"
         IN /\ fHandle' = IF outputFile # "" /\ created THEN "open" ELSE "nil"
            /\ mainPc' = next
            /\ IF next = "dispatch"
               THEN /\ sinkPc' = "recv"
                    /\ qpc' = [w \in Workers |-> "recv"]
                    /\ keysLeft' = DOMAIN mappedNameservers
                    /\ curKey' = EmptyStr
                    /\ domIdx' = Len(domainsList) + 1
               ELSE UNCHANGED <<sinkPc, qpc, keysLeft, curKey, domIdx>>
    /\ FrameGone
    /\ UNCHANGED <<inputVars, failLines, repVal1, report, renderVars, fileOut,
                   mappedNameservers, counterVars, chanVars, qjob, sent, sinkCur,
                   rendered, histVars>>

\* `for nsIP, _ := range mappedNameservers`: the next key, in map order
DispatchNextKey ==
    /\ mainPc = "dispatch"
    /\ domIdx > Len(domainsList)
    /\ \E k \in keysLeft :
         /\ keysLeft' = keysLeft \ {k}
         /\ curKey' = k
         /\ domIdx' = IF SkipKey(k) THEN Len(domainsList) + 1 ELSE 1
    /\ UNCHANGED <<inputVars, outVars, mainPc, resolveVars, counterVars, chanVars, qpc,
                   qjob, sent, sinkVars, histVars>>

\* `pendingQueries <- query` on the buffered channel of the early revision
DispatchSendBuffered ==
    /\ mainPc = "dispatch"
    /\ domIdx <= Len(domainsList)
    /\ ChanCap > 0
    /\ Len(pendingQueries) < ChanCap
    /\ pendingQueries' = Append(pendingQueries, JobKey(domainsList[domIdx], curKey))
    /\ sent' = sent \cup {JobKey(domainsList[domIdx], curKey)}
    /\ domIdx' = domIdx + 1
    /\ UNCHANGED <<inputVars, outVars, mainPc, resolveVars, counterVars, pendingClosed,
                   queryAnswers, answersClosed, qpc, qjob, keysLeft, curKey,
                   sinkVars, histVars>>

\* `pendingQueries <- query` on the unbuffered channel: the send completes
\* with a worker waiting in `range pendingQueries`
DispatchHandoff(w) ==
    /\ mainPc = "dispatch"
    /\ domIdx <= Len(domainsList)
    /\ ChanCap = 0
    /\ qpc[w] = "recv"
    /\ TakeJob(w, JobKey(domainsList[domIdx], curKey))
    /\ sent' = sent \cup {JobKey(domainsList[domIdx], curKey)}
    /\ domIdx' = domIdx + 1
    /\ UNCHANGED <<inputVars, outVars, mainPc, resolveVars, counterVars, chanVars,
                   keysLeft, curKey, sinkVars, exOk, exErr, pushed>>

\* a query worker takes a job from the buffered channel
WorkerRecvJob(w) ==
    /\ mainPc # "exit"
    /\ qpc[w] = "recv"
    /\ pendingQueries # << >>
    /\ TakeJob(w, Head(pendingQueries))
    /\ pendingQueries' = Tail(pendingQueries)
    /\ UNCHANGED <<inputVars, outVars, mainPc, resolveVars, counterVars, pendingClosed,
                   queryAnswers, answersClosed, dispatchVars, sinkVars, exOk,
                   exErr, pushed>>

\* the range loop of a query worker ends; wg.Done()
WorkerExit(w) ==
    /\ mainPc # "exit"
    /\ qpc[w] = "recv"
    /\ pendingClosed /\ pendingQueries = << >>
    /\ qpc' = [qpc EXCEPT ![w] = "done"]
    /\ UNCHANGED <<inputVars, outVars, mainPc, resolveVars, counterVars, chanVars, qjob,
                   dispatchVars, sinkVars, histVars>>

\* queryDNS returns: count it, then drop the query on error or go on to
\* send the answer
QueryReturn(w) ==
    /\ mainPc # "exit"
    /\ qpc[w] = "exchange"
    /\ \E x \in ExchangeOutcomes :
         LET res == queryDNS(x)
             good == x.err = "nil" /\ x.rcode = "NOERROR"
         IN /\ progress' = IF HasProgress THEN ProgressAfterQuery(progress, res)
                           ELSE progress
            /\ exOk' = IF good THEN Bump(exOk, qjob[w]) ELSE exOk
            /\ exErr' = IF good THEN exErr ELSE Bump(exErr, qjob[w])
            /\ failLines' = IF ~res.ok /\ LogsFailure(verboseMode)
                            THEN failLines + 1 ELSE failLines
            /\ consoleWritten' =
                  (consoleWritten \/ (~res.ok /\ LogsFailure(verboseMode)))
            /\ IF res.ok
               THEN /\ qpc' = [qpc EXCEPT ![w] = "send"]
                    /\ qjob' = qjob
               ELSE /\ qpc' = [qpc EXCEPT ![w] = AfterError]
                    /\ qjob' = [qjob EXCEPT ![w] = << >>]
    /\ UNCHANGED <<inputVars, repVal1, report, renderVars, fileVars, mainPc,
                   resolveVars, total,
                   chanVars, dispatchVars, sinkVars, calls, pushed>>

\* `queryAnswers <- wrappedAnswer{...}` on the buffered channel
SendAnswerBuffered(w) ==
    /\ mainPc # "exit"
    /\ qpc[w] = "send"
    /\ ChanCap > 0
    /\ Len(queryAnswers) < ChanCap
    /\ queryAnswers' = Append(queryAnswers, qjob[w])
    /\ pushed' = Bump(pushed, qjob[w])
    /\ qpc' = [qpc EXCEPT ![w] = "recv"]
    /\ qjob' = [qjob EXCEPT ![w] = << >>]
    /\ UNCHANGED <<inputVars, outVars, mainPc, resolveVars, counterVars, pendingQueries,
                   pendingClosed, answersClosed, dispatchVars, sinkVars, calls,
                   exOk, exErr>>

\* the same send on the unbuffered channel: it completes with the sink
\* waiting in `range queryAnswers`
SendAnswerHandoff(w) ==
    /\ mainPc # "exit"
    /\ qpc[w] = "send"
    /\ ChanCap = 0
    /\ sinkPc = "recv"
    /\ SinkTakes(qjob[w])
    /\ pushed' = Bump(pushed, qjob[w])
    /\ qpc' = [qpc EXCEPT ![w] = "recv"]
    /\ qjob' = [qjob EXCEPT ![w] = << >>]
    /\ UNCHANGED <<inputVars, consoleWritten, failLines, repVal1, report, renderOut,
                   fileVars, mainPc, resolveVars, counterVars, chanVars,
                   dispatchVars, rendered, calls, exOk, exErr>>

\* the sink takes an answer from the buffered channel
SinkRecv ==
    /\ mainPc # "exit"
    /\ sinkPc = "recv"
    /\ queryAnswers # << >>
    /\ SinkTakes(Head(queryAnswers))
    /\ queryAnswers' = Tail(queryAnswers)
    /\ UNCHANGED <<inputVars, consoleWritten, failLines, repVal1, report, renderOut,
                   fileVars, mainPc, resolveVars, counterVars, pendingQueries,
                   pendingClosed, answersClosed, qpc, qjob, dispatchVars,
                   rendered, histVars>>

\* One iteration of `for _, answer := range resp.Answer`: the record is
\* formatted, written to the output file if there is one and printed to
\* standard output.  After the last record (or at once, when the answer
\* section is empty) the sink is back at `range queryAnswers`.
SinkRender ==
    /\ mainPc # "exit"
    /\ sinkPc = "render"
    /\ LET recs == renderIn[renderAns]
           some == renderIdx <= Len(recs)
           last == renderIdx >= Len(recs)
       IN /\ IF some
             THEN /\ renderOut' = renderOut \o Printed(renderAns, renderIdx,
                                                       recs[renderIdx])
                  /\ fileOut' = fileOut \o Filed(renderAns, renderIdx,
                                                 recs[renderIdx])
                  /\ consoleWritten' = TRUE
                  /\ renderIdx' = renderIdx + 1
             ELSE UNCHANGED <<renderOut, fileOut, consoleWritten, renderIdx>>
          /\ IF last
             THEN /\ rendered' = Bump(rendered, sinkCur)
                  /\ sinkCur' = << >>
                  /\ sinkPc' = "recv"
             ELSE UNCHANGED <<rendered, sinkCur, sinkPc>>
    /\ UNCHANGED <<inputVars, failLines, repVal1, report, renderIn, renderAns,
                   fHandle, mainPc, resolveVars, counterVars, chanVars, qpc, qjob,
                   dispatchVars, histVars>>

\* `range queryAnswers` ends on the closed, empty channel (wg2.Done())
SinkExit ==
    /\ mainPc # "exit"
    /\ sinkPc = "recv"
    /\ answersClosed /\ queryAnswers = << >>
    /\ sinkPc' = "done"
    /\ UNCHANGED <<inputVars, outVars, mainPc, resolveVars, counterVars, chanVars, qpc,
                   qjob, dispatchVars, sinkCur, rendered, histVars>>

\* close(pendingQueries) after the dispatch loop (the loop variable is gone)
ClosePending ==
    /\ mainPc = "dispatch"
    /\ keysLeft = {} /\ domIdx > Len(domainsList)
    /\ pendingClosed' = TRUE
    /\ curKey' = EmptyStr
    /\ mainPc' = "wait"
    /\ UNCHANGED <<inputVars, outVars, resolveVars, counterVars, pendingQueries,
                   queryAnswers, answersClosed, qpc, qjob, keysLeft, domIdx,
                   sent, sinkVars, histVars>>

\* wg.Wait()
WgWait ==
    /\ mainPc = "wait"
    /\ WaitDone(qpc)
    /\ mainPc' = "close_answers"
    /\ UNCHANGED <<inputVars, outVars, resolveVars, counterVars, chanVars, qpc, qjob,
                   dispatchVars, sinkVars, histVars>>

\* close(queryAnswers); next comes wg2.Wait(), in the early revision the
\* return of main
CloseAnswers ==
    /\ mainPc = "close_answers"
    /\ answersClosed' = TRUE
    /\ mainPc' = IF HasWg2 THEN "wait2" ELSE "return"
    /\ UNCHANGED <<inputVars, outVars, resolveVars, counterVars, pendingQueries,
                   pendingClosed, queryAnswers, qpc, qjob, dispatchVars,
                   sinkVars, histVars>>

\* wg2.Wait(), then main returns
Wg2Wait ==
    /\ mainPc = "wait2"
    /\ sinkPc = "done"
    /\ mainPc' = "exit"
    /\ UNCHANGED <<inputVars, outVars, resolveVars, counterVars, chanVars, qpc, qjob,
                   dispatchVars, sinkVars, histVars>>

\* the early revision: main returns after close(queryAnswers) and the
\* process ends, whatever the sink goroutine is doing
MainReturn ==
    /\ mainPc = "return"
    /\ mainPc' = "exit"
    /\ UNCHANGED <<inputVars, outVars, resolveVars, counterVars, chanVars, qpc, qjob,
                   dispatchVars, sinkVars, histVars>>

\* ------------------------------------------------------------- specification
MainStep ==
    \/ RnStart \/ RnDrain \/ RnReturn \/ StoreTotals \/ Launch
    \/ DispatchNextKey \/ DispatchSendBuffered
    \/ \E w \in Workers : DispatchHandoff(w)
    \/ ClosePending \/ WgWait \/ CloseAnswers \/ Wg2Wait \/ MainReturn

ResolverStep(w) == RWorkerRecv(w) \/ RWorkerExit(w) \/ RWorkerLookup(w)

QueryStep(w) ==
    \/ WorkerRecvJob(w) \/ WorkerExit(w) \/ QueryReturn(w)
    \/ SendAnswerBuffered(w) \/ SendAnswerHandoff(w)

SinkStep == SinkRecv \/ SinkRender \/ SinkExit

Next ==
    \/ MainStep
    \/ FanIn
    \/ \E w \in Workers : ResolverStep(w)
    \/ \E w \in Workers : QueryStep(w)
    \/ SinkStep

Spec == Init /\ [][Next]_vars

TypeOK ==
    /\ mainPc \in {"start", "check", "load", "resolve", "rn_drain", "resolved", "launch", "dispatch", "wait",
                   "close_answers", "wait2", "return", "exit"} \cup FatalExits
    /\ progress \in Nat /\ total \in Nat
    /\ Len(pendingQueries) <= ChanCap /\ Len(queryAnswers) <= ChanCap
    /\ fHandle \in {"nil", "open"}
    /\ fHandle = "open" => outputFile # ""
    /\ renderAns = Len(renderIn)

\* Scheduling: the Go runtime runs every goroutine that can take a step, and
\* every lookup and exchange returns (system resolver timeout, 5 s client
\* timeout).
FairSpec ==
    /\ Spec
    /\ WF_vars(MainStep)
    /\ WF_vars(FanIn)
    /\ WF_vars(SinkStep)
    /\ \A w \in 1..MaxWorkers : WF_vars(w \in Workers /\ ResolverStep(w))
    /\ \A w \in 1..MaxWorkers : WF_vars(w \in Workers /\ QueryStep(w))

\* The pipeline with --verbose either given or not (the early revision has
\* no such flag).
InitVerbose ==
    /\ variant \in Variants
    /\ nameservers \in SeqsUpTo(Hostnames, MaxNameservers)
    /\ domainsList \in SeqsUpTo(DomainNames, MaxDomains)
    /\ numWorkers \in 1..MaxWorkers
    /\ quietMode = FALSE
    /\ verboseMode \in (IF HasVerbose THEN BOOLEAN ELSE {FALSE})
    /\ outputFile = ""
    /\ answerSections = UsualSections
    /\ consoleWritten = TRUE
    /\ mainPc = "resolve"
    /\ Untouched

VerboseSpec == InitVerbose /\ [][Next]_vars

\* ------------------------------------------------------------- startup, reporter
\* `if !quietMode { fmt.Println(banner); ... }` right after pflag.Parse()
Banner ==
    /\ mainPc = "start"
    /\ consoleWritten' = (consoleWritten \/ ~quietMode)
    /\ mainPc' = "check"
    /\ UNCHANGED <<inputVars, failLines, repVal1, report, renderVars, fileVars,
                   resolveVars, counterVars, chanVars, qpc, qjob, dispatchVars,
                   sinkVars, histVars>>

\* `if numWorkers <= 0 { log.Fatalf(...) }`: the message goes to standard
\* error and the process exits
CheckWorkers ==
    /\ mainPc = "check"
    /\ mainPc' = IF numWorkers <= 0 THEN "fatal_workers" ELSE "load"
    /\ UNCHANGED <<inputVars, outVars, resolveVars, counterVars, chanVars, qpc,
                   qjob, dispatchVars, sinkVars, histVars>>

\* How the loading of the lists can end: "ok"; "nsfile", a nameserver list
\* that cannot be opened or read (log.Fatalf, lines 99 and 110); "domains",
\* a domain list that cannot be opened or read, or neither -d nor -l given
\* (log.Fatalf, lines 118, 129 and 133).
LoadExits == {"ok", "nsfile", "domains"}

\* The nameserver lists and the domain list are read.  On success sampleSize
\* is computed and announced (unless --quiet) and the reporter goroutine
\* starts.  On a failure the process exits through log.Fatalf (standard
\* error) with what was read so far: some nameservers when a nameserver
\* list fails, all nameservers and some domains when the domains fail.
LoadLists ==
    /\ mainPc = "load"
    /\ \E ns \in SeqsUpTo(Hostnames, MaxNameservers),
          ds \in SeqsUpTo(DomainNames, MaxDomains),
          exit \in LoadExits :
         /\ nameservers' = ns
         /\ domainsList' = IF exit = "nsfile" THEN << >> ELSE ds
         /\ sampleSize' = IF exit = "ok" THEN SampleSize(Len(ds), Len(ns))
                          ELSE sampleSize
         /\ consoleWritten' = (consoleWritten \/ (exit = "ok" /\ ~quietMode))
         /\ mainPc' = IF exit = "ok" THEN "resolve" ELSE "fatal_lists"
    /\ UNCHANGED <<variant, numWorkers, quietMode, verboseMode, outputFile,
                   answerSections, failLines, repVal1, report, renderVars, fileVars, jobs, jobsClosed, results, resultsClosed, rpc, rjob,
                   resultsMap, mappedNameservers, drained, counterVars, chanVars,
                   qpc, qjob, dispatchVars, sinkVars, histVars>>

\* the reporter goroutine exists: started after the lists were loaded (in
\* the mid revision only without --quiet), gone when the process ends
ReporterRunning ==
    /\ HasReporter
    /\ variant = "mid" => ~quietMode
    /\ mainPc \notin {"start", "check", "load", "exit"} \cup FatalExits

\* a line arrives on stdin: val1 := atomic.LoadInt32(&progress)
ReporterLoad ==
    /\ ReporterRunning
    /\ repVal1 = << >>
    /\ repVal1' = <<progress>>
    /\ UNCHANGED <<inputVars, consoleWritten, failLines, report, renderVars, fileVars,
                   mainPc, resolveVars,
                   counterVars, chanVars, qpc, qjob, dispatchVars, sinkVars,
                   histVars>>

\* val2 := atomic.LoadInt32(&total); the progress line is printed with
\* log.Printf (standard error), in the mid revision with fmt.Printf
\* (standard output)
ReporterPrint ==
    /\ ReporterRunning
    /\ repVal1 # << >>
    /\ report' = ProgressLine(repVal1[1], total)
    /\ repVal1' = << >>
    /\ consoleWritten' = (consoleWritten \/ variant = "mid")
    /\ UNCHANGED <<inputVars, failLines, renderVars, fileVars, mainPc,
                   resolveVars,
                   counterVars, chanVars, qpc, qjob, dispatchVars, sinkVars,
                   histVars>>

\* the process from pflag.Parse() on, with the operator pressing enter at
\* any time
InitStart ==
    /\ variant \in Variants
    /\ nameservers = << >>
    /\ domainsList = << >>
    /\ numWorkers \in 0..MaxWorkers
    /\ quietMode \in BOOLEAN /\ verboseMode = FALSE
    /\ outputFile \in (IF HasOutputFile THEN OutputFiles ELSE {""})
    /\ answerSections = AliasSections
    /\ consoleWritten = FALSE
    /\ mainPc = "start"
    /\ Untouched

NextOperator ==
    \/ Banner \/ CheckWorkers \/ LoadLists
    \/ ReporterLoad \/ ReporterPrint
    \/ Next

OperatorSpec == InitStart /\ [][NextOperator]_vars

\* ------------------------------------------------------------- sink output
\* The pipeline with servers that reply with any answer section of up to
\* MaxRecords records, of any types, the empty one included.
InitRender ==
    /\ variant \in Variants
    /\ nameservers \in SeqsUpTo(Hostnames, MaxNameservers)
    /\ domainsList \in SeqsUpTo(DomainNames, MaxDomains)
    /\ numWorkers \in 1..MaxWorkers
    /\ quietMode = FALSE /\ verboseMode = FALSE
    /\ outputFile \in (IF HasOutputFile THEN OutputFiles ELSE {""})
    /\ answerSections = SeqsUpTo(RecordTypes, MaxRecords)
    /\ consoleWritten = TRUE
    /\ mainPc = "resolve"
    /\ Untouched

RenderSpec == InitRender /\ [][Next]_vars

\* ------------------------------------------------------------- resolver
\* resolveNameservers on its own, as main() calls it, with longer nameserver
\* lists (a hostname listed twice next to another hostname needs three
\* entries) and no domains.
InitResolve ==
    /\ variant \in Variants
    /\ nameservers \in SeqsUpTo(Hostnames, MaxListed)
    /\ domainsList = << >>
    /\ numWorkers \in 1..MaxWorkers
    /\ quietMode = FALSE /\ verboseMode = FALSE
    /\ outputFile = ""
    /\ answerSections = UsualSections
    /\ consoleWritten = TRUE
    /\ mainPc = "resolve"
    /\ Untouched

NextResolve ==
    \/ RnStart \/ RnDrain \/ RnReturn
    \/ FanIn
    \/ \E w \in Workers : ResolverStep(w)

ResolveSpec == InitResolve /\ [][NextResolve]_vars

\* ------------------------------------------------------------- properties
\* resolveNameservers has just returned: its frame is still in view
Returned == mainPc = "resolved"
\* the query phase has drained: job channel closed, all query workers done
Drained == mainPc \in {"close_answers", "wait2", "return", "exit"}
Count(seq, x) == Cardinality({i \in 1..Len(seq) : seq[i] = x})
\* hostnames none of whose lookups gave an address
FailedHosts ==
    {h \in Range(nameservers) :
        /\ \E i \in 1..Len(drained) : drained[i][1] = h
        /\ \A i \in 1..Len(drained) : drained[i][1] = h => drained[i][3]}
Holding(p) == Cardinality({w \in Workers : qpc[w] = "send" /\ qjob[w] = p})

\* C1: once the query phase has drained, completed equals total.
C1_CompletedEqualsTotal ==
    (HasProgress /\ Drained) => progress = total

\* C2: completed changes only by increments of exactly 1, and at every state
\* it equals the number of DNS exchanges that have returned, whatever their
\* outcome; a call of queryDNS returns at most once, and every call has
\* returned once the query phase has drained.
C2_CompletedCountsReturns ==
    /\ [](HasProgress => progress = Sum(exOk) + Sum(exErr))
    /\ [](\A p \in Pairs :
            /\ exOk[p] + exErr[p] <= calls[p]
            /\ Drained => exOk[p] + exErr[p] = calls[p])
    /\ [][progress' = progress \/ progress' = progress + 1]_vars

C2_Witness ==
    /\ HasProgress /\ progress = 2
    /\ Sum(exOk) = 1 /\ Sum(exErr) = 1

\* C3 (as stated): after resolveNameservers returns, a hostname whose
\* resolution failed has left no empty-string key in the mapping and is not
\* one of its values.
C3_NoEmptyKey ==
    Returned =>
        \A h \in FailedHosts :
            /\ EmptyStr \notin DOMAIN mappedNameservers
            /\ h \notin Range(mappedNameservers)

\* C3 (amended): after resolveNameservers returns, a hostname none of whose
\* lookups succeeded is stored under no non-empty IP key, only (if at all)
\* under the empty-string key; the empty-string key is present exactly when
\* some lookup failed, and its value is a hostname with a failed lookup.
C3_FailedOnlyUnderEmptyKey ==
    Returned =>
        /\ \A h \in FailedHosts : \A k \in DOMAIN mappedNameservers :
              mappedNameservers[k] = h => k = EmptyStr
        /\ (EmptyStr \in DOMAIN mappedNameservers)
              <=> (\E i \in 1..Len(drained) : drained[i][3])
        /\ (EmptyStr \in DOMAIN mappedNameservers) =>
              \E i \in 1..Len(drained) :
                  drained[i][1] = mappedNameservers[EmptyStr] /\ drained[i][3]

C3_Witness ==
    /\ Returned
    /\ FailedHosts # {}
    /\ DOMAIN mappedNameservers = {EmptyStr, <<"1">>}

\* C4: no job with an empty nameserver IP is ever put on the job channel and
\* queryDNS is never called with one; every job sent is for a domain of the
\* list and a non-empty key of the mapping.
C4_NoEmptyIPJob ==
    /\ \A q \in sent : Split(q, "|")[Len(Split(q, "|"))] # EmptyStr
    /\ \A d \in DomainNames : calls[<<d, EmptyStr>>] = 0
    /\ sent \subseteq {JobKey(d, k) : d \in Range(domainsList),
                                      k \in DOMAIN mappedNameservers \ {EmptyStr}}

C4_Witness ==
    /\ mainPc = "wait"
    /\ EmptyStr \in DOMAIN mappedNameservers
    /\ sent # {}

\* C5: when the dispatcher is past its wait on the query workers, every
\* (domain, non-empty IP key) pair has been passed to queryDNS exactly once
\* per entry of the domain list, and that query has returned.
C5_EveryPairQueriedOnce ==
    Drained =>
        \A d \in Range(domainsList) :
            \A k \in DOMAIN mappedNameservers \ {EmptyStr} :
                /\ calls[<<d, k>>] = Count(domainsList, d)
                /\ exOk[<<d, k>>] + exErr[<<d, k>>] = Count(domainsList, d)

\* C6: when main returns, every answer pushed on the answer channel has been
\* received and fully rendered by the sink.
C6_AllAnswersRendered ==
    mainPc = "exit" =>
        /\ queryAnswers = << >>
        /\ sinkPc # "render"
        /\ \A p \in Pairs : rendered[p] = pushed[p]

\* C7: an answer is pushed exactly once for each exchange that succeeded with
\* a success response code (counting the answer a worker is about to send)
\* and never for a failed one; the sink renders only pushed answers.
C7_AnswerOnlyOnSuccess ==
    \A p \in Pairs :
        /\ pushed[p] + Holding(p) = exOk[p]
        /\ rendered[p] <= pushed[p]
        /\ Drained => pushed[p] = exOk[p]

C7_Witness ==
    /\ mainPc = "exit"
    /\ \E p \in Pairs : pushed[p] = 1 /\ rendered[p] = 1
    /\ \E p \in Pairs : exErr[p] = 1 /\ pushed[p] = 0

\* C8: under fair scheduling the pipeline terminates: the job channel is
\* closed, every query worker has exited, the answer channel is closed, the
\* sink loop has ended and main has returned.
C8_Terminates ==
    <>(/\ mainPc = "exit"
       /\ pendingClosed /\ answersClosed
       /\ \A w \in Workers : qpc[w] = "done"
       /\ sinkPc = "done")

\* C9: resolveNameservers returns only after every input hostname has been
\* looked up and its result drained into the mapping; an empty list gives an
\* empty mapping; every address a lookup gave is a key of the mapping.
C9_ReturnsAfterAllDrained ==
    Returned =>
        /\ Len(drained) = Len(nameservers)
        /\ \A h \in Hostnames :
              Count([i \in 1..Len(drained) |-> drained[i][1]], h)
                  = Count(nameservers, h)
        /\ results = << >> /\ jobs = << >>
        /\ \A w \in Workers : rpc[w] = "done"
        /\ \A i \in 1..Len(drained) :
              ~drained[i][3] =>
                  /\ drained[i][2] # EmptyStr
                  /\ drained[i][2] \in DOMAIN mappedNameservers
        /\ nameservers = << >> => mappedNameservers = EmptyMap

C9_Witness ==
    /\ Returned
    /\ Len(nameservers) = 2
    /\ \E i, j \in 1..Len(drained) :
          drained[i][3] /\ ~drained[j][3]

\* C10: in the returned mapping every key holds the hostname of the result
\* with that IP that was drained last, and the keys are exactly the IPs of
\* the drained results.
C10_LastWriterWins ==
    Returned =>
        /\ DOMAIN mappedNameservers = {drained[i][2] : i \in 1..Len(drained)}
        /\ \A i \in 1..Len(drained) :
              (\A j \in (i + 1)..Len(drained) : drained[j][2] # drained[i][2])
                  => mappedNameservers[drained[i][2]] = drained[i][1]

\* two hostnames with the same IP: the one that comes first in the input is
\* the one retained
C10_Witness ==
    /\ Returned
    /\ nameservers = <<"ns1", "ns2">>
    /\ \A i \in 1..Len(drained) : drained[i][2] = <<"1">>
    /\ mappedNameservers[<<"1">>] = "ns1"

\* ------------------------------------------------------------- C11
\* the list without its repeated hostnames (first or last occurrence kept)
RECURSIVE DedupFirst(_)
DedupFirst(s) ==
    IF s = << >> THEN << >>
    ELSE LET front == SubSeq(s, 1, Len(s) - 1) IN
         IF \E i \in 1..Len(front) : front[i] = s[Len(s)]
         THEN DedupFirst(front)
         ELSE Append(DedupFirst(front), s[Len(s)])

RECURSIVE DedupLast(_)
DedupLast(s) ==
    IF s = << >> THEN << >>
    ELSE IF \E i \in 2..Len(s) : s[i] = s[1]
         THEN DedupLast(Tail(s))
         ELSE <<s[1]>> \o DedupLast(Tail(s))

HasDuplicates == \E i, j \in 1..Len(nameservers) : i # j /\ nameservers[i] = nameservers[j]

\* what a lookup really gave: "" when it failed, else the address sent
LookupGave(e) == IF e[3] THEN EmptyStr ELSE e[2]

\* every hostname resolved to the same result each time it was looked up
ConsistentLookups ==
    \A i, j \in 1..Len(drained) :
        drained[i][1] = drained[j][1] => LookupGave(drained[i]) = LookupGave(drained[j])

ResolvesTo(h) ==
    LookupGave(drained[CHOOSE i \in 1..Len(drained) : drained[i][1] = h])

\* the mapping resolveNameservers builds when the results of list s come
\* back in input order
RECURSIVE InOrderMap(_)
InOrderMap(s) ==
    IF s = << >> THEN EmptyMap
    ELSE MapPut(InOrderMap(SubSeq(s, 1, Len(s) - 1)), ResolvesTo(s[Len(s)]), s[Len(s)])

DistinctResults ==
    \A h1, h2 \in Range(nameservers) : h1 # h2 => ResolvesTo(h1) # ResolvesTo(h2)

\* C11 (as stated): under consistent lookups the mapping returned for a list
\* with repeated hostnames is the mapping of the list without the repeats
\* (which, for that list, is what results arriving in input order give).
C11_SameAsDeduplicated ==
    (Returned /\ HasDuplicates /\ ConsistentLookups)
        => \/ mappedNameservers = InOrderMap(DedupFirst(nameservers))
           \/ mappedNameservers = InOrderMap(DedupLast(nameservers))

\* C11 (amended): under consistent lookups the mapping returned for a list
\* with repeated hostnames has the keys of the mapping of the list without
\* the repeats, every key is mapped to a hostname that resolved to it, and
\* the two mappings are equal when no two distinct hostnames gave the same
\* result.
C11_SameKeysAndOwners ==
    (Returned /\ HasDuplicates /\ ConsistentLookups)
        => /\ DOMAIN mappedNameservers = DOMAIN InOrderMap(DedupFirst(nameservers))
           /\ \A k \in DOMAIN mappedNameservers :
                /\ mappedNameservers[k] \in Range(nameservers)
                /\ ResolvesTo(mappedNameservers[k]) = k
           /\ DistinctResults
                => mappedNameservers = InOrderMap(DedupFirst(nameservers))

\* a list with a repeated hostname next to another one, consistent lookups
\* with distinct results, two keys in the returned mapping
C11_Witness ==
    /\ Returned /\ HasDuplicates /\ ConsistentLookups /\ DistinctResults
    /\ Cardinality(Range(nameservers)) = 2
    /\ Cardinality(DOMAIN mappedNameservers) = 2

\* ------------------------------------------------------------- C12
\* C12: a progress line produced while total is zero shows 100% (or no line
\* is produced at all); the percentage is never the result of dividing by a
\* zero total.
C12_ZeroTotalGuarded ==
    report.val2 = 0 =>
        \/ report.pct.kind = "none"
        \/ report.pct.kind = "num" /\ report.pct.value = 10000

\* ------------------------------------------------------------- C13
\* C13: when a worker count <= 0 has been rejected, nothing has been written
\* to standard output, no list file has been read, no hostname resolved, no
\* goroutine started and no query issued.
C13_RejectedBeforeAnyIO ==
    mainPc = "fatal_workers" =>
        /\ ~consoleWritten
        /\ nameservers = << >> /\ domainsList = << >>
        /\ drained = << >> /\ ~jobsClosed
        /\ repVal1 = << >> /\ report = NoReport
        /\ sinkPc = "off"
        /\ Sum(calls) = 0

\* ------------------------------------------------------------- C14
\* the sink is not inside the loop over the records of an answer
RenderDone == sinkPc # "render"

\* the expected output: answer by answer in arrival order, record
\* by record in answer-section order, one "line" piece with the tag of the
\* record's type, then the newline
RECURSIVE ExpectedOfAnswer(_, _)
ExpectedOfAnswer(k, n) ==
    IF n = 0 THEN << >>
    ELSE ExpectedOfAnswer(k, n - 1)
             \o <<Piece(k, n, TagOf(renderIn[k][n]), "line"), NL>>

RECURSIVE ExpectedOutput(_)
ExpectedOutput(k) ==
    IF k = 0 THEN << >>
    ELSE ExpectedOutput(k - 1) \o ExpectedOfAnswer(k, Len(renderIn[k]))

\* C14: once the sink has rendered every answer it received, its output is
\* exactly one line per record, tagged by record type, in answer-section
\* order within an answer, and the lines of different answers do not mix.
C14_OneLinePerRecordInOrder ==
    RenderDone => renderOut = ExpectedOutput(Len(renderIn))

\* ------------------------------------------------------------- C15
\* C15: with --verbose the number of failure lines printed equals the number
\* of failed queries, without it no failure line is ever printed, and a
\* worker only ever leaves its loop because the job channel was closed
\* (after a failure it is back at the receive).
C15_OneLinePerFailureIfVerbose ==
    /\ verboseMode => failLines = Sum(exErr)
    /\ ~verboseMode => failLines = 0
    /\ \A w \in Workers : qpc[w] = "done" => pendingClosed
    /\ \A w \in Workers : qpc[w] \in {"recv", "done"} => qjob[w] = << >>

\* verbose run in which a query has failed and its line is printed, with a
\* worker waiting for its next job while the dispatch is not over
C15_Witness ==
    /\ verboseMode
    /\ failLines >= 1
    /\ Sum(exErr) >= 1
    /\ ~pendingClosed
    /\ \E w \in Workers : qpc[w] = "recv"

\* ------------------------------------------------------------- C16
\* C16: the answer channel is closed only once the job channel is closed and
\* every query worker has finished; the results channel of the resolver is
\* closed only once every resolver worker has finished; whoever may still
\* send on a channel (main while dispatching, a query worker with a job in
\* hand, a resolver worker in a lookup) finds it open; and main reaches each
\* close with the channel still open.
C16_ClosedOnlyAfterSenders ==
    /\ answersClosed => (pendingClosed /\ \A w \in Workers : qpc[w] = "done")
    /\ resultsClosed => \A w \in Workers : rpc[w] = "done"
    /\ \A w \in Workers : qpc[w] \in {"exchange", "send"} => ~answersClosed
    /\ \A w \in Workers : rpc[w] = "lookup" => ~resultsClosed
    /\ mainPc = "dispatch" => ~pendingClosed
    /\ mainPc = "resolve" => ~jobsClosed
    /\ mainPc \in {"wait", "close_answers"} => (pendingClosed /\ ~answersClosed)

\* both pools of two workers have sent and both channels are closed
C16_Witness ==
    /\ numWorkers = 2
    /\ resultsClosed /\ answersClosed
    /\ Len(nameservers) = 0 /\ Cardinality(DOMAIN mappedNameservers) = 2
    /\ Sum(pushed) >= 1

\* ------------------------------------------------------------- C17
\* C17: every progress line shows, as its total, the size of the query
\* universe: the reporter never reads total before it has been stored.
C17_ReporterReadsFinalTotal ==
    report.pct.kind # "none" => report.val2 = sampleSize

\* ------------------------------------------------------------- C18
QueryPoolStarted ==
    \/ \E w \in Workers : qpc[w] # "idle"
    \/ sent # {}
    \/ sinkPc # "off"

\* C18: once a query worker has been started or a job enqueued, every
\* resolver worker has exited, the resolver's channels are closed and empty
\* and resolveNameservers has returned; and from the start of the dispatch
\* on the IP-to-hostname mapping never changes.
C18_PoolsNeverOverlap ==
    /\ [](QueryPoolStarted =>
            /\ \A w \in Workers : rpc[w] = "done"
            /\ jobsClosed /\ jobs = << >>
            /\ resultsClosed /\ results = << >>
            /\ mainPc \in {"dispatch", "wait", "close_answers", "wait2", "return",
                          "exit"})
    /\ [][QueryPoolStarted => mappedNameservers' = mappedNameservers]_vars

\* two query workers just started, nothing dispatched yet, after a pool of
\* two resolver workers produced a mapping with two keys
C18_Witness ==
    /\ numWorkers = 2
    /\ \A w \in Workers : qpc[w] = "recv" /\ rpc[w] = "done"
    /\ sent = {}
    /\ Cardinality(DOMAIN mappedNameservers) = 2

\* ------------------------------------------------------------- C19
\* a job key that does not split on "|" into exactly two parts
Malformed(key) == Len(Split(key, "|")) # 2

\* C19: no query is ever issued and no answer pushed for a job key that is
\* malformed: queries are issued only for (domain, nsIP) pairs whose domain
\* is in the domain list, at most once per listing; a worker holding a job
\* holds a well-formed one; and a worker only leaves its loop once the job
\* channel is closed, so a malformed key neither stops nor crashes it.
C19_MalformedKeyIsNoOp ==
    /\ \A p \in Pairs :
         /\ calls[p] <= Count(domainsList, p[1])
         /\ Malformed(JobKey(p[1], p[2])) =>
                (calls[p] = 0 /\ exOk[p] = 0 /\ exErr[p] = 0 /\ pushed[p] = 0)
    /\ \A w \in Workers :
         /\ qpc[w] \in {"exchange", "send"} => ~Malformed(JobKey(qjob[w][1], qjob[w][2]))
         /\ qpc[w] = "done" => pendingClosed
    /\ (\A key \in sent : Malformed(key)) => (Sum(calls) = 0 /\ progress = 0)

\* two malformed keys were dispatched, no query was issued, and the run has
\* gone on to its end
C19_Witness ==
    /\ Cardinality(sent) = 2
    /\ \A key \in sent : Malformed(key)
    /\ Sum(calls) = 0
    /\ mainPc = "exit"

\* ------------------------------------------------------------- C20
PipelineRunning ==
    mainPc \in {"dispatch", "wait", "close_answers", "wait2", "return"}

\* C20: while the query pipeline runs (from the start of the dispatch until
\* main returns), the producer, a query worker or the sink can always take a
\* step: they are never all blocked on a channel operation or a wait.
C20_PipelineNeverStuck ==
    PipelineRunning =>
        ENABLED (MainStep \/ (\E w \in Workers : QueryStep(w)) \/ SinkStep)

\* unbuffered channels: main is blocked in wg.Wait(), every worker is blocked
\* sending an answer, and only the sink, busy rendering, can move
C20_Witness ==
    /\ ChanCap = 0
    /\ mainPc = "wait"
    /\ \A w \in Workers : qpc[w] = "send"
    /\ sinkPc = "render"

\* ------------------------------------------------------------- C21
\* main() is past atomic.StoreInt32(&total, ...), the exit on an output
\* file that cannot be created included
TotalStored ==
    HasProgress /\ mainPc \in {"launch", "fatal_output", "dispatch", "wait",
                                "close_answers", "wait2", "exit"}

\* C21: once total has been stored, 0 <= progress <= total, total is the
\* product of the list lengths, the number of jobs the dispatch loop produces
\* (domains times distinct non-empty keys of the mapping) is at most total,
\* and the percentage computed from the two counters is never above 100.00
\* (nor +Inf).
C21_CompletedWithinTotal ==
    TotalStored =>
        /\ 0 <= progress /\ progress <= total
        /\ total = sampleSize
        /\ Len(domainsList) * Cardinality(DOMAIN mappedNameservers \ {EmptyStr}) <= total
        /\ Sum(calls) <= total
        /\ Percent(progress, total).kind # "+Inf"
        /\ Percent(progress, total).value <= 10000

\* every nameserver resolved to its own IP and every query has returned:
\* progress has reached a total of two
C21_Witness ==
    /\ TotalStored
    /\ total = 2
    /\ progress = total

\* ------------------------------------------------------------- C22
\* answers the sink has received so far
SinkReceived == Sum(pushed) - Len(queryAnswers)

\* C22: every answer a worker holds ready to send, every answer in the answer
\* channel and every answer the sink has received has already been counted:
\* answers received by the sink <= progress, and answers pushed plus
\* answers held ready <= progress.
C22_CountedBeforeHandedOver ==
    HasProgress =>
        /\ SinkReceived <= progress
        /\ Sum(pushed) + Cardinality({w \in Workers : qpc[w] = "send"}) <= progress

\* progress already equals the number of queries dispatched, the dispatch is
\* over, and an answer still waits in a worker's hands while the sink renders
\* another one
C22_Witness ==
    /\ HasProgress
    /\ mainPc = "wait"
    /\ progress = Sum(calls) /\ progress = 2
    /\ \E w \in Workers : qpc[w] = "send"
    /\ sinkPc = "render"
    /\ Sum(rendered) = 0

\* ------------------------------------------------------------- C23
\* exchanges started and not yet returned, from the call and return counts
ExchangesInFlight == Sum(calls) - Sum(exOk) - Sum(exErr)

\* hostnames taken from the jobs channel whose result has not been sent yet
\* (meaningful while resolveNameservers runs)
LookupsInFlight ==
    Len(nameservers) - Len(jobs) - Len(results) - Len(drained)

\* C23: the exchanges in flight are exactly those of the workers sitting in
\* queryDNS, one each, hence at most numWorkers; during resolution the
\* lookups in flight are exactly those of the resolver workers sitting in
\* resolveNameserver, one each, hence at most numWorkers; a worker not in a
\* call holds no job except an answer it is about to send.
C23_InFlightWithinWorkers ==
    /\ ExchangesInFlight = Cardinality({w \in Workers : qpc[w] = "exchange"})
    /\ ExchangesInFlight <= numWorkers
    /\ \A p \in Pairs : calls[p] - exOk[p] - exErr[p]
                            = Cardinality({w \in Workers : qpc[w] = "exchange" /\ qjob[w] = p})
    /\ \A w \in Workers : qpc[w] \in {"idle", "recv", "done"} => qjob[w] = << >>
    /\ mainPc \in {"rn_drain", "resolved"} =>
          /\ LookupsInFlight = Cardinality({w \in Workers : rpc[w] = "lookup"})
          /\ LookupsInFlight <= numWorkers
    /\ \A w \in Workers : rpc[w] # "lookup" => rjob[w] = ""

\* two workers, both inside an exchange at the same time, on a mapping with
\* two keys
C23_Witness ==
    /\ numWorkers = 2
    /\ ExchangesInFlight = 2
    /\ \A w \in Workers : qpc[w] = "exchange"
    /\ Cardinality(DOMAIN mappedNameservers) = 2

====
